---- MODULE Spec2Model ----
(***************************************************************************)
(* The toolstate pipeline of update_toolstate.py: runs of main(), one      *)
(* runner per platform, against the shared S3 bucket BIN_BUCKET.           *)
(*                                                                         *)
(* A string is a sequence of tokens.  The separators "/" and "-" are       *)
(* tokens of their own; every other token is a run of characters holding   *)
(* no separator, so that keys are built and parsed as the code does it.    *)
(***************************************************************************)
EXTENDS Integers, Sequences, FiniteSets, TLC

(* ----------------------------- bounds ---------------------------------- *)

\* runs of main() a runner makes
MaxRuns == 2

\* object-store calls that fail, over all runs
MaxStoreErrors == 1

\* runs of main() the runner of the one-tool configuration makes
MaxOneToolRuns == 4

\* runs of main() the runner makes while every repository answers
MaxAnsweredRuns == 3

\* runs of main() each of two runners on different platforms makes
MaxPlatformRuns == 2

\* runs of main() the runner of the shared-source configurations makes
MaxSharedSourceRuns == 2

\* tokens of a tool name, and of a revision, passed to get_s3_key
MaxToolLen == 3
MaxRevLen == 2

(* ----------------------------- strings --------------------------------- *)

\* rank of a token in byte order ("-" < "/" < digits < letters)
Code(c) ==
    CASE c = "-" -> 1
      [] c = "/" -> 2
      [] c = "1" -> 3
      [] c = "2" -> 4
      [] c = "3" -> 5
      [] c = "a" -> 6
      [] c = "b" -> 7
      [] c = "cache" -> 8
      [] c = "current" -> 9
      [] c = "darwin" -> 10
      [] c = "g" -> 11
      [] c = "linux" -> 12
      [] OTHER -> 0

\* s < t in byte order
RECURSIVE StrLess(_, _)
StrLess(s, t) ==
    IF t = <<>> THEN FALSE
    ELSE IF s = <<>> THEN TRUE
    ELSE IF s[1] = t[1] THEN StrLess(Tail(s), Tail(t))
    ELSE Code(s[1]) < Code(t[1])

\* str.startswith
StartsWith(s, pfx) ==
    /\ Len(pfx) <= Len(s)
    /\ SubSeq(s, 1, Len(pfx)) = pfx

\* str.rsplit(sep, 1): split at the last occurrence of sep, if any
RSplit1(s, sep) ==
    LET at == {i \in 1..Len(s) : s[i] = sep}
    IN  IF at = {} THEN <<s>>
        ELSE LET i == CHOOSE k \in at : \A m \in at : m <= k
             IN  <<SubSeq(s, 1, i - 1), SubSeq(s, i + 1, Len(s))>>

\* os.path.join of two components (posixpath)
PathJoin(a, b) ==
    IF b /= <<>> /\ b[1] = "/" THEN b
    ELSE IF a = <<>> \/ a[Len(a)] = "/" THEN a \o b
    ELSE a \o <<"/">> \o b

Range(s) == {s[i] : i \in 1..Len(s)}

(* ----------------------------- constants ------------------------------- *)

\* values of sys.platform
Linux == <<"linux">>
Darwin == <<"darwin">>
Platforms == {Linux, Darwin}

CACHE_BIN_PFX(p) == p \o <<"/", "cache", "/">>
CD_BIN_PFX(p) == p \o <<"/", "current", "/">>

\* Python's None, which is also what dict.get gives for a missing key
None == <<"None">>

\* tool names; ToolB and ToolG are built from the same repository
ToolA == <<"a">>
ToolB == <<"b">>
ToolG == <<"b", "-", "g">>
Tools == {ToolA, ToolB, ToolG}
Sources == {"s1", "s2"}
SourceOf(t) == IF t = ToolA THEN "s1" ELSE "s2"

\* config.yml as a run may find it: the declared tools, in file order
Configs == {<<ToolA, ToolB>>, <<ToolA>>}

\* what `git ls-remote <source> master | cut -f1` prints, cut to [:7]: a
\* revision, or nothing when ls-remote fails or finds no such branch (the
\* status of the pipeline is the status of cut, so run() does not raise)
Revs == {<<"1">>, <<"2">>}
EmptyRev == <<>>
LsRemoteOut == Revs \cup {EmptyRev}

(* ----------------------------- keys ------------------------------------ *)

get_s3_key(prefix, tool, version) ==
    PathJoin(prefix, tool \o <<"-">> \o version)

\* a parse_s3_key that splits the file name at its first "-"
ParseAtFirstHyphen(key) ==
    LET parts == RSplit1(key, "/")
        name == parts[Len(parts)]
        at == {i \in 1..Len(name) : name[i] = "-"}
    IN  IF at = {} THEN <<name>>
        ELSE LET i == CHOOSE k \in at : \A m \in at : k <= m
             IN  <<SubSeq(name, 1, i - 1), SubSeq(name, i + 1, Len(name))>>

parse_s3_key(key) ==
    LET parts == RSplit1(key, "/")
    IN  RSplit1(parts[Len(parts)], "-")

\* a set of keys in the order S3 lists them
RECURSIVE SortKeys(_)
SortKeys(K) ==
    IF K = {} THEN <<>>
    ELSE LET k == CHOOSE x \in K : \A y \in K \ {x} : StrLess(x, y)
         IN  <<k>> \o SortKeys(K \ {k})

\* the part of a key set under a prefix
Under(S, prefix) == {k \in S : StartsWith(k, prefix)}

\* a listing without its Prefix argument: every object of the bucket
ListWholeBucket(bucket, prefix) == SortKeys(bucket)

\* s3.list_objects_v2(Bucket=BIN_BUCKET, Prefix=prefix)
list_objects_v2(bucket, prefix) == SortKeys(Under(bucket, prefix))

\* dict(pairs): a later pair overrides an earlier one with the same key
RECURSIVE DictOf(_)
DictOf(pairs) ==
    IF pairs = <<>> THEN <<>>
    ELSE LET n == Len(pairs)
             d == DictOf(SubSeq(pairs, 1, n - 1))
             k == pairs[n][1]
         IN  [x \in DOMAIN d \cup {k} |-> IF x = k THEN pairs[n][2] ELSE d[x]]

\* dict.get(k)
Get(d, k) == IF k \in DOMAIN d THEN d[k] ELSE None

_get_tools_in(bucket, prefix) ==
    LET objs == list_objects_v2(bucket, prefix)
    IN  DictOf([i \in 1..Len(objs) |-> parse_s3_key(objs[i])])

get_cached_versions(bucket, p) == _get_tools_in(bucket, CACHE_BIN_PFX(p))
get_current_versions(bucket, p) == _get_tools_in(bucket, CD_BIN_PFX(p))

(* ----------------------------- state ----------------------------------- *)

VARIABLES
    store,            \* the keys of the objects in BIN_BUCKET
    bin_dir,          \* per platform: the file names in BIN_DIR
    pc,               \* per platform: where main() stands
    config,           \* per platform: the tools of config.yml, in file order
    head_versions,    \* per platform: main's head_versions
    cached_versions,  \* per platform: main's cached_versions
    queue,            \* per platform: what the running loop has left to visit
    update_current,   \* per platform: main's update_current
    raised,           \* per platform: build_tools raised, the exception is pending
    current_versions, \* per platform: sync_tools' current_versions
    built_tools,      \* per platform: sync_tools' built_tools, in iteration order
    to_delete,        \* per platform: sync_tools' to_delete
    exit_status,      \* per platform: "none" while running, then "ok" or "error"
    store_error,      \* per platform: the store call that raised in this run
    ops,              \* per platform: the store writes this run has made
    start_store,      \* per platform: the bucket as the run found it
    nbuilds,          \* per platform: the builds this run has started
    runs,             \* per platform: the runs started
    queried,          \* per platform: the sources this run asked ls-remote about
    rerun,            \* per platform: this run repeats, with the same config.yml
                      \* and heads, a run that a store error ended in promotion
    nerrors,          \* the store calls that have raised
    key_call          \* a call of get_s3_key followed by parse_s3_key: its
                      \* arguments, the key and the parsed pair, as far as it got

locals == <<config, head_versions, cached_versions, queue, update_current, raised,
            current_versions, built_tools, to_delete>>
vars == <<store, bin_dir, pc, locals, exit_status, store_error, ops, start_store, queried, rerun, key_call,
          nbuilds, runs, nerrors>>

PutOp(k) == [op |-> "put", key |-> k, src |-> None, keys |-> {}]
CopyOp(src, dst) == [op |-> "copy", key |-> dst, src |-> src, keys |-> {}]
DeleteOp(ks) == [op |-> "delete", key |-> None, src |-> None, keys |-> ks]

\* no call of get_s3_key under way
NoKeyCall ==
    [at |-> "none", prefix |-> <<>>, tool |-> <<>>, version |-> <<>>,
     key |-> <<>>, parsed |-> <<>>]

\* the state before the first run of main()
InitRuns ==
    /\ store = {}
    /\ bin_dir = [p \in Platforms |-> {}]
    /\ pc = [p \in Platforms |-> "idle"]
    /\ config = [p \in Platforms |-> <<>>]
    /\ head_versions = [p \in Platforms |-> <<>>]
    /\ cached_versions = [p \in Platforms |-> <<>>]
    /\ queue = [p \in Platforms |-> <<>>]
    /\ update_current = [p \in Platforms |-> FALSE]
    /\ raised = [p \in Platforms |-> FALSE]
    /\ current_versions = [p \in Platforms |-> <<>>]
    /\ built_tools = [p \in Platforms |-> <<>>]
    /\ to_delete = [p \in Platforms |-> {}]
    /\ exit_status = [p \in Platforms |-> "none"]
    /\ store_error = [p \in Platforms |-> "none"]
    /\ ops = [p \in Platforms |-> <<>>]
    /\ start_store = [p \in Platforms |-> {}]
    /\ nbuilds = [p \in Platforms |-> 0]
    /\ runs = [p \in Platforms |-> 0]
    /\ queried = [p \in Platforms |-> <<>>]
    /\ rerun = [p \in Platforms |-> FALSE]
    /\ nerrors = 0

Init == InitRuns /\ key_call = NoKeyCall

(* ----------------------------- main ------------------------------------ *)

\* Config.sources
sources(cfg) == {SourceOf(t) : t \in Range(cfg)}

\* a set as a sequence, in some fixed order
RECURSIVE SeqOf(_)
SeqOf(S) ==
    IF S = {} THEN <<>>
    ELSE LET x == CHOOSE y \in S : TRUE
         IN  <<x>> \o SeqOf(S \ {x})

\* a get_head_versions that asks ls-remote once for every tool
QueryPerTool(cfg) == [i \in 1..Len(cfg) |-> SourceOf(cfg[i])]

\* the sources get_head_versions asks ls-remote about, one call each
LsRemoteQueries(cfg) == SeqOf(sources(cfg))

\* source_revs: the dict of what ls-remote printed (answers) for each query
SourceRevs(queries, answers) ==
    DictOf([i \in 1..Len(queries) |-> <<queries[i], answers[i]>>])

\* get_head_versions: source_revs is what ls-remote printed for each source
get_head_versions(cfg, source_revs) ==
    [t \in Range(cfg) |-> source_revs[SourceOf(t)]]

\* the names of main's to_build, in the order of head_versions.items()
NeedsBuild(cfg, head, cached) ==
    SelectSeq(cfg, LAMBDA t : Get(cached, t) /= head[t])

\* a main() without its early return
ShortCircuitNever(tb) == FALSE

\* `if not to_build: return`
ShortCircuit(tb) == tb = <<>>

\* a main() that promotes whatever the builds did
UpdateCurrentAlways(build_ok) == TRUE

\* update_current as main passes it to sync_tools
UpdateCurrent(build_ok) == build_ok

\* the store call that raised in the run of p belongs to the promotion
Phase2Error(p) ==
    \/ store_error[p] \in {"copy", "put_current"}
    \/ store_error[p] = "delete" /\ update_current[p]

\* the store call `call` of the run of p raises: the run ends
Fail(p, call) ==
    /\ nerrors < MaxStoreErrors
    /\ nerrors' = nerrors + 1
    /\ store_error' = [store_error EXCEPT ![p] = call]
    /\ exit_status' = [exit_status EXCEPT ![p] = "error"]
    /\ pc' = [pc EXCEPT ![p] = "done"]

\* main() up to the build loop: load config.yml (one of cfgs), resolve the
\* heads (ls-remote prints one of outs for each source), list cache/ (the
\* call returns or raises, as oks allows), plan; return if nothing is to
\* build, else enter build_tools, which empties BIN_DIR
StartRun(p, cfgs, outs, oks) ==
    /\ pc[p] \in {"idle", "done"}
    /\ runs' = [runs EXCEPT ![p] = @ + 1]
    /\ start_store' = [start_store EXCEPT ![p] = store]
    /\ ops' = [ops EXCEPT ![p] = <<>>]
    /\ nbuilds' = [nbuilds EXCEPT ![p] = 0]
    /\ raised' = [raised EXCEPT ![p] = FALSE]
    /\ current_versions' = [current_versions EXCEPT ![p] = <<>>]
    /\ built_tools' = [built_tools EXCEPT ![p] = <<>>]
    /\ to_delete' = [to_delete EXCEPT ![p] = {}]
    /\ UNCHANGED <<store, key_call>>
    /\ LET listed == get_cached_versions(store, p)
       IN  \E cfg \in cfgs : \E answers \in [1..Len(LsRemoteQueries(cfg)) -> outs] :
           LET out == SourceRevs(LsRemoteQueries(cfg), answers) IN
            /\ config' = [config EXCEPT ![p] = cfg]
            /\ queried' = [queried EXCEPT ![p] = LsRemoteQueries(cfg)]
            /\ rerun' = [rerun EXCEPT ![p] =
                    /\ pc[p] = "done"
                    /\ Phase2Error(p)
                    /\ cfg = config[p]
                    /\ get_head_versions(cfg, out) = head_versions[p]]
            /\ head_versions' = [head_versions EXCEPT ![p] = get_head_versions(cfg, out)]
            /\ \/ /\ FALSE \in oks
                  /\ Fail(p, "list_cache")
                  /\ cached_versions' = [cached_versions EXCEPT ![p] = <<>>]
                  /\ queue' = [queue EXCEPT ![p] = <<>>]
                  /\ update_current' = [update_current EXCEPT ![p] = FALSE]
                  /\ UNCHANGED bin_dir
               \/ LET tb == NeedsBuild(cfg, get_head_versions(cfg, out), listed)
                  IN  /\ TRUE \in oks
                      /\ cached_versions' = [cached_versions EXCEPT ![p] = listed]
                      /\ store_error' = [store_error EXCEPT ![p] = "none"]
                      /\ UNCHANGED nerrors
                      /\ IF ShortCircuit(tb)
                         THEN /\ pc' = [pc EXCEPT ![p] = "done"]
                              /\ exit_status' = [exit_status EXCEPT ![p] = "ok"]
                              /\ queue' = [queue EXCEPT ![p] = <<>>]
                              /\ update_current' = [update_current EXCEPT ![p] = FALSE]
                              /\ UNCHANGED bin_dir
                         ELSE /\ pc' = [pc EXCEPT ![p] =
                                      IF tb = <<>> THEN "sync" ELSE "build"]
                              /\ exit_status' = [exit_status EXCEPT ![p] = "none"]
                              /\ queue' = [queue EXCEPT ![p] = tb]
                              /\ update_current' = [update_current EXCEPT ![p] =
                                      IF tb = <<>> THEN UpdateCurrent(TRUE) ELSE FALSE]
                              /\ bin_dir' = [bin_dir EXCEPT ![p] = {}]

\* build_tools: one turn of its loop; the build of a tool succeeds and leaves
\* its binary in BIN_DIR, or raises; after the loop, main's `finally`
BuildTool(p, ok) ==
    /\ pc[p] = "build"
    /\ queue[p] /= <<>>
    /\ nbuilds' = [nbuilds EXCEPT ![p] = @ + 1]
    /\ IF ok
       THEN /\ bin_dir' = [bin_dir EXCEPT ![p] = @ \cup {Head(queue[p])}]
            /\ queue' = [queue EXCEPT ![p] = Tail(@)]
            /\ UNCHANGED raised
            /\ IF Tail(queue[p]) = <<>>
               THEN /\ update_current' = [update_current EXCEPT ![p] = UpdateCurrent(TRUE)]
                    /\ pc' = [pc EXCEPT ![p] = "sync"]
               ELSE UNCHANGED <<update_current, pc>>
       ELSE /\ raised' = [raised EXCEPT ![p] = TRUE]
            /\ update_current' = [update_current EXCEPT ![p] = UpdateCurrent(FALSE)]
            /\ pc' = [pc EXCEPT ![p] = "sync"]
            /\ UNCHANGED <<bin_dir, queue>>
    /\ UNCHANGED <<store, config, head_versions, cached_versions, current_versions,
                   built_tools, to_delete, exit_status, store_error, ops,
                   start_store, queried, rerun, key_call, runs, nerrors>>

(* ----------------------------- sync_tools ------------------------------ *)

\* `if cached_version:` -- None and the empty string are false
Truthy(v) == v /= None /\ v /= EmptyRev

\* a sync_tools that marks the key it has just uploaded
SupersededHeadKeys(p, cached, head, tool) ==
    IF Truthy(Get(cached, tool))
    THEN {get_s3_key(CACHE_BIN_PFX(p), tool, head[tool])}
    ELSE {}

\* the cache key sync_tools marks for deletion once it has uploaded tool
SupersededCacheKeys(p, cached, head, tool) ==
    IF Truthy(Get(cached, tool))
    THEN {get_s3_key(CACHE_BIN_PFX(p), tool, Get(cached, tool))}
    ELSE {}

\* the keys of current/ sync_tools marks for deletion when it promotes
StaleCurrentKeys(p, current, head) ==
    {get_s3_key(CD_BIN_PFX(p), t, current[t]) :
        t \in {x \in DOMAIN current : Get(head, x) /= current[x]}}

\* a sync_tools that copies to current/ only what this run built
CopyOnlyBuilt(cfg, built) == SelectSeq(cfg, LAMBDA t : t \in built)

\* the tools whose cache object sync_tools copies to current/, in the order
\* of head_versions.items()
CopyList(cfg, built) == cfg

\* a sync_tools that also promotes the tools it found cached
PromotionSetWithCached(head, cached) ==
    [t \in DOMAIN head \cup DOMAIN cached |->
        IF t \in DOMAIN head THEN head[t] ELSE cached[t]]

\* the dict whose items the copy loop of sync_tools visits
PromotionSet(head, cached) == head

\* the tools the copy loop visits: those of CopyList, then whatever else
\* PromotionSet holds (nothing, as its keys are the declared tools)
CopyQueue(cfg, built, promotion) ==
    CopyList(cfg, built) \o SortKeys(DOMAIN promotion \ Range(cfg))

\* a first loop over built_tools that uploads to current/
CacheUploadToCurrent(p) == CD_BIN_PFX(p)

\* the prefix under which the first loop over built_tools uploads
CacheUploadPrefix(p) == CACHE_BIN_PFX(p)

\* a second loop over built_tools that uploads to cache/ once more
PromoteUploadToCache(p) == CACHE_BIN_PFX(p)

\* the prefix under which the second loop over built_tools uploads
PromoteUploadPrefix(p) == CD_BIN_PFX(p)

\* the orders in which a set may be iterated
Orders(S) == {s \in [1..Cardinality(S) -> S] : Range(s) = S}

\* sync_tools after the loop that uploads to cache/, `marked` being the
\* cache keys to delete; to_delete is a batch whose order does not matter
\* and is kept as a set
AfterCacheLoop(p, marked) ==
    IF update_current[p]
    THEN LET copies == CopyQueue(config[p], Range(built_tools'[p]),
                                 PromotionSet(head_versions[p], cached_versions[p]))
         IN  /\ to_delete' = [to_delete EXCEPT ![p] = marked \cup
                     StaleCurrentKeys(p, current_versions'[p], head_versions[p])]
             /\ queue' = [queue EXCEPT ![p] =
                     IF copies /= <<>> THEN copies ELSE built_tools'[p]]
             /\ pc' = [pc EXCEPT ![p] =
                     IF copies /= <<>> THEN "copy"
                     ELSE IF built_tools'[p] /= <<>> THEN "upload_current"
                     ELSE "delete"]
    ELSE /\ to_delete' = [to_delete EXCEPT ![p] = marked]
         /\ queue' = [queue EXCEPT ![p] = <<>>]
         /\ pc' = [pc EXCEPT ![p] = "delete"]

\* an upload that takes the place of the object the tool had next to key
UploadInPlace(bucket, key) ==
    {k \in bucket : ~( /\ RSplit1(k, "/")[1] = RSplit1(key, "/")[1]
                       /\ parse_s3_key(k)[1] = parse_s3_key(key)[1] )} \cup {key}

\* s3.upload_file: the bucket with an object (written or overwritten) at key
upload_file(bucket, key) == bucket \cup {key}

\* sync_tools: list current/, read BIN_DIR into the set built_tools
SyncList(p, ok) ==
    /\ pc[p] = "sync"
    /\ UNCHANGED <<store, bin_dir, config, head_versions, cached_versions,
                   update_current, raised, ops, start_store, queried, rerun, key_call, nbuilds, runs>>
    /\ IF ok
       THEN /\ current_versions' = [current_versions EXCEPT ![p] = get_current_versions(store, p)]
            /\ \E order \in Orders(bin_dir[p]) :
                   built_tools' = [built_tools EXCEPT ![p] = order]
            /\ IF bin_dir[p] /= {}
               THEN /\ pc' = [pc EXCEPT ![p] = "upload_cache"]
                    /\ queue' = [queue EXCEPT ![p] = built_tools'[p]]
                    /\ to_delete' = [to_delete EXCEPT ![p] = {}]
               ELSE AfterCacheLoop(p, {})
            /\ UNCHANGED <<exit_status, store_error, nerrors>>
       ELSE /\ Fail(p, "list_current")
            /\ UNCHANGED <<current_versions, built_tools, to_delete, queue>>

\* sync_tools: one turn of the first loop over built_tools
UploadCache(p, ok) ==
    /\ pc[p] = "upload_cache"
    /\ queue[p] /= <<>>
    /\ UNCHANGED <<bin_dir, config, head_versions, cached_versions, update_current,
                   raised, current_versions, built_tools, start_store, queried, rerun, key_call, nbuilds, runs>>
    /\ IF ok
       THEN LET tool == Head(queue[p])
                key == get_s3_key(CacheUploadPrefix(p), tool, head_versions[p][tool])
                marked == to_delete[p] \cup
                    SupersededCacheKeys(p, cached_versions[p], head_versions[p], tool)
            IN  /\ store' = upload_file(store, key)
                /\ ops' = [ops EXCEPT ![p] = Append(@, PutOp(key))]
                /\ IF Tail(queue[p]) = <<>>
                   THEN AfterCacheLoop(p, marked)
                   ELSE /\ queue' = [queue EXCEPT ![p] = Tail(@)]
                        /\ to_delete' = [to_delete EXCEPT ![p] = marked]
                        /\ UNCHANGED pc
                /\ UNCHANGED <<exit_status, store_error, nerrors>>
       ELSE /\ Fail(p, "put_cache")
            /\ UNCHANGED <<store, ops, to_delete, queue>>

\* sync_tools: one turn of the loop over head_versions that copies cache/ to
\* current/; copy_object raises when the source key does not exist
CopyCurrent(p, ok) ==
    /\ pc[p] = "copy"
    /\ queue[p] /= <<>>
    /\ UNCHANGED <<bin_dir, config, head_versions, cached_versions, update_current,
                   raised, current_versions, built_tools, to_delete, start_store, queried, rerun, key_call,
                   nbuilds, runs>>
    /\ LET tool == Head(queue[p])
           ver == PromotionSet(head_versions[p], cached_versions[p])[tool]
           cache_key == get_s3_key(CACHE_BIN_PFX(p), tool, ver)
           cd_key == get_s3_key(CD_BIN_PFX(p), tool, ver)
       IN  IF ok /\ cache_key \in store
           THEN /\ store' = store \cup {cd_key}
                /\ ops' = [ops EXCEPT ![p] = Append(@, CopyOp(cache_key, cd_key))]
                /\ queue' = [queue EXCEPT ![p] =
                        IF Tail(@) /= <<>> THEN Tail(@) ELSE built_tools[p]]
                /\ pc' = [pc EXCEPT ![p] =
                        IF Tail(queue[p]) /= <<>> THEN "copy"
                        ELSE IF built_tools[p] /= <<>> THEN "upload_current"
                        ELSE "delete"]
                /\ UNCHANGED <<exit_status, store_error, nerrors>>
           ELSE /\ IF cache_key \in store
                   THEN Fail(p, "copy")
                   ELSE /\ ok
                        /\ store_error' = [store_error EXCEPT ![p] = "copy"]
                        /\ exit_status' = [exit_status EXCEPT ![p] = "error"]
                        /\ pc' = [pc EXCEPT ![p] = "done"]
                        /\ UNCHANGED nerrors
                /\ UNCHANGED <<store, ops, queue>>

\* sync_tools: one turn of the second loop over built_tools
UploadCurrent(p, ok) ==
    /\ pc[p] = "upload_current"
    /\ queue[p] /= <<>>
    /\ UNCHANGED <<bin_dir, config, head_versions, cached_versions, update_current,
                   raised, current_versions, built_tools, to_delete, start_store, queried, rerun, key_call,
                   nbuilds, runs>>
    /\ IF ok
       THEN LET tool == Head(queue[p])
                key == get_s3_key(PromoteUploadPrefix(p), tool, head_versions[p][tool])
            IN  /\ store' = upload_file(store, key)
                /\ ops' = [ops EXCEPT ![p] = Append(@, PutOp(key))]
                /\ queue' = [queue EXCEPT ![p] = Tail(@)]
                /\ pc' = [pc EXCEPT ![p] =
                        IF Tail(queue[p]) = <<>> THEN "delete" ELSE "upload_current"]
                /\ UNCHANGED <<exit_status, store_error, nerrors>>
       ELSE /\ Fail(p, "put_current")
            /\ UNCHANGED <<store, ops, queue>>

\* sync_tools: the batched delete_objects, if anything is marked; then main
\* returns, or re-raises what build_tools raised
Delete(p, ok) ==
    /\ pc[p] = "delete"
    /\ UNCHANGED <<bin_dir, locals, start_store, queried, rerun, key_call, nbuilds, runs>>
    /\ IF ok
       THEN /\ store' = store \ to_delete[p]
            /\ ops' = [ops EXCEPT ![p] =
                    IF to_delete[p] /= {} THEN Append(@, DeleteOp(to_delete[p])) ELSE @]
            /\ pc' = [pc EXCEPT ![p] = "done"]
            /\ exit_status' = [exit_status EXCEPT ![p] = IF raised[p] THEN "error" ELSE "ok"]
            /\ UNCHANGED <<store_error, nerrors>>
       ELSE /\ to_delete[p] /= {}
            /\ Fail(p, "delete")
            /\ UNCHANGED <<store, ops>>

(* ----------------------------- specification --------------------------- *)

\* the steps of a run that follow its planning; a store call returns or
\* raises, as oks allows
Steps(p, oks) ==
    \/ \E ok \in BOOLEAN : BuildTool(p, ok)
    \/ \E ok \in oks : SyncList(p, ok)
    \/ \E ok \in oks : UploadCache(p, ok)
    \/ \E ok \in oks : CopyCurrent(p, ok)
    \/ \E ok \in oks : UploadCurrent(p, ok)
    \/ \E ok \in oks : Delete(p, ok)

\* the runs of one platform's runner
Next ==
    \/ runs[Linux] < MaxRuns /\ StartRun(Linux, Configs, LsRemoteOut, BOOLEAN)
    \/ Steps(Linux, BOOLEAN)

Spec == Init /\ [][Next]_vars

\* the runs of a runner whose config.yml declares one tool, whose
\* repository moves between three revisions and always answers
OneToolConfigs == {<<ToolA>>}
ThreeRevs == Revs \cup {<<"3">>}

NextOneTool ==
    \/ /\ runs[Linux] < MaxOneToolRuns
       /\ StartRun(Linux, OneToolConfigs, ThreeRevs, BOOLEAN)
    \/ Steps(Linux, BOOLEAN)

SpecOneTool == Init /\ [][NextOneTool]_vars

\* the runs of a runner on a day without faults: every repository answers
\* and no store call raises (builds may still fail)
NextNoFaults ==
    \/ runs[Linux] < MaxRuns /\ StartRun(Linux, Configs, Revs, {TRUE})
    \/ Steps(Linux, {TRUE})

SpecNoFaults == Init /\ [][NextNoFaults]_vars

\* the runs of a runner while every repository answers; store calls may
\* raise and builds may fail
NextAnswered ==
    \/ runs[Linux] < MaxAnsweredRuns /\ StartRun(Linux, Configs, Revs, BOOLEAN)
    \/ Steps(Linux, BOOLEAN)

SpecAnswered == Init /\ [][NextAnswered]_vars

\* the runs of two runners, one per platform, interleaved in any way; each
\* declares one tool and no store call raises (builds may fail)
NextTwoPlatforms ==
    \E p \in Platforms :
        \/ runs[p] < MaxPlatformRuns /\ StartRun(p, OneToolConfigs, Revs, {TRUE})
        \/ Steps(p, {TRUE})

SpecTwoPlatforms == Init /\ [][NextTwoPlatforms]_vars

\* the runs of a runner whose config.yml declares two tools built from one
\* repository, with or without a third tool from another; no store call
\* raises (builds may fail)
SharedSourceConfigs == {<<ToolA, ToolB, ToolG>>, <<ToolB, ToolG>>}

NextSharedSource ==
    \/ /\ runs[Linux] < MaxSharedSourceRuns
       /\ StartRun(Linux, SharedSourceConfigs, Revs, {TRUE})
    \/ Steps(Linux, {TRUE})

SpecSharedSource == Init /\ [][NextSharedSource]_vars

\* the sequences over S of length at most n
SeqsUpTo(S, n) == UNION {[1..m -> S] : m \in 0..n}

\* arguments of get_s3_key: the prefixes of the program and others, with
\* and without a trailing "/"; names and versions with and without
\* separators in them
KeyPrefixes ==
    {CACHE_BIN_PFX(Linux), CD_BIN_PFX(Darwin), <<>>, <<"linux">>, <<"linux", "/", "cache">>}
KeyTools == SeqsUpTo({"b", "g", "-", "/"}, MaxToolLen)
KeyVersions == SeqsUpTo({"1", "-", "/"}, MaxRevLen)

InitKeys ==
    /\ InitRuns
    /\ \E prefix \in KeyPrefixes : \E tool \in KeyTools : \E version \in KeyVersions :
           key_call = [NoKeyCall EXCEPT !.at = "args", !.prefix = prefix,
                                        !.tool = tool, !.version = version]

\* the call get_s3_key(prefix, tool, version)
MakeKey ==
    /\ key_call.at = "args"
    /\ key_call' = [key_call EXCEPT
           !.at = "key",
           !.key = get_s3_key(key_call.prefix, key_call.tool, key_call.version)]
    /\ UNCHANGED <<store, bin_dir, pc, locals, exit_status, store_error, ops,
                   start_store, queried, rerun, nbuilds, runs, nerrors>>

\* the call parse_s3_key(key) on the key made
ParseKey ==
    /\ key_call.at = "key"
    /\ key_call' = [key_call EXCEPT !.at = "parsed", !.parsed = parse_s3_key(key_call.key)]
    /\ UNCHANGED <<store, bin_dir, pc, locals, exit_status, store_error, ops,
                   start_store, queried, rerun, nbuilds, runs, nerrors>>

NextKeys == MakeKey \/ ParseKey

SpecKeys == InitKeys /\ [][NextKeys]_vars

(* ----------------------------- properties ------------------------------ *)

CacheKeys(S, p) == Under(S, CACHE_BIN_PFX(p))
CurrentKeys(S, p) == Under(S, CD_BIN_PFX(p))

\* the keys a store write touches
Touched(o) == IF o.op = "delete" THEN o.keys ELSE {o.key}

\* the tool and the revision a key names
ToolOf(k) == parse_s3_key(k)[1]
RevOf(k) == parse_s3_key(k)[2]

\* the run of p is over
Done(p) == pc[p] = "done"

\* the run of p planned its builds: it resolved the heads and listed cache/
Planned(p) == runs[p] > 0 /\ store_error[p] /= "list_cache"

\* the needs-build set of the run of p
ToBuild(p) == NeedsBuild(config[p], head_versions[p], cached_versions[p])

\* C1: once a build of the run has failed, the keys under current/ are those
\* the run found, no write of the run touches current/, and the run ends
\* with an error.
C1_BuildFailureKeepsCurrent ==
    \A p \in Platforms :
        raised[p] =>
            /\ ~update_current[p]
            /\ CurrentKeys(store, p) = CurrentKeys(start_store[p], p)
            /\ \A i \in DOMAIN ops[p] : CurrentKeys(Touched(ops[p][i]), p) = {}
            /\ Done(p) => exit_status[p] = "error"

\* a run in which the second build failed has ended, having uploaded the
\* first tool to cache/ next to a populated current/
C1_Witness ==
    /\ Done(Linux)
    /\ raised[Linux]
    /\ ops[Linux] /= <<>>
    /\ CurrentKeys(start_store[Linux], Linux) /= {}

\* C9: a run whose needs-build set is empty is over, has returned
\* successfully, and has made no build, put, copy or delete: cache/ and
\* current/ are as it found them.
C9_EmptyPlanShortCircuits ==
    \A p \in Platforms :
        (Planned(p) /\ ToBuild(p) = <<>>) =>
            /\ Done(p)
            /\ exit_status[p] = "ok"
            /\ ops[p] = <<>>
            /\ nbuilds[p] = 0
            /\ CacheKeys(store, p) = CacheKeys(start_store[p], p)
            /\ CurrentKeys(store, p) = CurrentKeys(start_store[p], p)

\* a later run found every declared tool cached at its head and returned
C9_Witness ==
    /\ Done(Linux)
    /\ Planned(Linux)
    /\ ToBuild(Linux) = <<>>
    /\ runs[Linux] >= 2
    /\ CacheKeys(store, Linux) /= {}
    /\ CurrentKeys(store, Linux) /= {}

\* the run of p went through sync_tools with update_current true and no
\* store call raised: Phase 2 is complete
Promoted(p) == Done(p) /\ update_current[p] /\ store_error[p] = "none"

\* the keys current/ is meant to hold: the head key of every declared tool
DesiredCurrent(p) ==
    {get_s3_key(CD_BIN_PFX(p), t, head_versions[p][t]) : t \in DOMAIN head_versions[p]}

\* C2: after a run that completed Phase 2 without a store error, the keys
\* under current/ are exactly the head keys of the declared tools.
C2_CurrentIsDesired ==
    \A p \in Platforms :
        Promoted(p) => CurrentKeys(store, p) = DesiredCurrent(p)

\* C3: when a run that built and promoted every declared tool is followed by
\* a run that resolves the same heads (and can list cache/), the second run
\* plans no build and returns successfully at once, with no store write.
C3_SecondRunIsNoOp ==
    [][\A p \in Platforms :
        ( /\ Promoted(p)
          /\ exit_status[p] = "ok"
          /\ Range(built_tools[p]) = Range(config[p])
          /\ runs'[p] = runs[p] + 1
          /\ head_versions'[p] = head_versions[p]
          /\ store_error'[p] /= "list_cache" )
        => ( /\ NeedsBuild(config'[p], head_versions'[p], cached_versions'[p]) = <<>>
             /\ pc'[p] = "done"
             /\ exit_status'[p] = "ok"
             /\ nbuilds'[p] = 0
             /\ ops'[p] = <<>> )]_vars

\* C4: when a run ends successfully, no key that it found under current/
\* for a tool that is no longer declared is left there.
C4_RemovedToolLeavesCurrent ==
    \A p \in Platforms :
        (Done(p) /\ exit_status[p] = "ok") =>
            \A k \in CurrentKeys(start_store[p], p) :
                ToolOf(k) \notin Range(config[p]) => k \notin store

\* a store write that adds a key
IsWrite(o) == o.op \in {"put", "copy"}

\* two keys lie in the same area (cache/ or current/) of a platform
SameArea(k1, k2, p) ==
    \/ StartsWith(k1, CACHE_BIN_PFX(p)) /\ StartsWith(k2, CACHE_BIN_PFX(p))
    \/ StartsWith(k1, CD_BIN_PFX(p)) /\ StartsWith(k2, CD_BIN_PFX(p))

\* before the i-th write of the run of p, the run wrote the head key of the
\* tool of k into the area of k
HeadWrittenBefore(p, i, k) ==
    \E j \in 1..(i - 1) :
        /\ IsWrite(ops[p][j])
        /\ SameArea(ops[p][j].key, k, p)
        /\ ToolOf(ops[p][j].key) = ToolOf(k)
        /\ ToolOf(k) \in DOMAIN head_versions[p]
        /\ RevOf(ops[p][j].key) = head_versions[p][ToolOf(k)]

\* a delete request is the last store write of its run
DeleteIsLast(p) ==
    \A i \in DOMAIN ops[p] : ops[p][i].op = "delete" => i = Len(ops[p])

\* C5 as claimed: a key is deleted only after the head key of the same tool
\* was written to the same area in the run, and only after every upload and
\* copy of the run.
C5_DeleteOnlySuperseded ==
    \A p \in Platforms :
        /\ DeleteIsLast(p)
        /\ \A i \in DOMAIN ops[p] :
               ops[p][i].op = "delete" =>
                   \A k \in ops[p][i].keys : HeadWrittenBefore(p, i, k)

\* C5, amended: a deleted key of a declared tool is deleted only after the
\* head key of that tool was written to the same area in the run; a deleted
\* key of a tool that is no longer declared lies under current/; and a
\* delete request follows every upload and copy of the run.
C5_DeleteOnlySupersededOrUndeclared ==
    \A p \in Platforms :
        /\ DeleteIsLast(p)
        /\ \A i \in DOMAIN ops[p] :
               ops[p][i].op = "delete" =>
                   \A k \in ops[p][i].keys :
                       IF ToolOf(k) \in DOMAIN head_versions[p]
                       THEN HeadWrittenBefore(p, i, k)
                       ELSE StartsWith(k, CD_BIN_PFX(p))

\* a run has deleted a superseded key from cache/, a superseded key from
\* current/ and the current/ key of a tool that is no longer declared
C5_Witness ==
    \E i \in DOMAIN ops[Linux] :
        /\ ops[Linux][i].op = "delete"
        /\ \E k \in ops[Linux][i].keys :
               StartsWith(k, CACHE_BIN_PFX(Linux)) /\ k \in start_store[Linux]
        /\ \E k \in ops[Linux][i].keys :
               /\ StartsWith(k, CD_BIN_PFX(Linux))
               /\ ToolOf(k) \in DOMAIN head_versions[Linux]
               /\ k \in start_store[Linux]
        /\ \E k \in ops[Linux][i].keys :
               /\ ToolOf(k) \notin DOMAIN head_versions[Linux]
               /\ k \in start_store[Linux]

\* the head key of every tool in BIN_DIR is under cache/
BuiltAreCached(p) ==
    \A t \in bin_dir[p] :
        get_s3_key(CACHE_BIN_PFX(p), t, head_versions[p][t]) \in store

C7_ResolutionFailureIsFatal ==
    \A p \in Platforms :
        (\E t \in DOMAIN head_versions[p] : head_versions[p][t] = EmptyRev) =>
            /\ nbuilds[p] = 0
            /\ ops[p] = <<>>
            /\ Done(p) => exit_status[p] = "error"

\* C8: once a run has completed Phase 2, the bucket holds the history log,
\* an object that is neither under cache/ nor under current/.
C8_HistoryRecordAppended ==
    \A p \in Platforms :
        Promoted(p) =>
            \E k \in store :
                \A q \in Platforms :
                    ~StartsWith(k, CACHE_BIN_PFX(q)) /\ ~StartsWith(k, CD_BIN_PFX(q))

\* C10: every write of a run under current/ is a copy of the key of the same
\* tool and revision under cache/.
C10_CurrentOnlyByCopy ==
    \A p \in Platforms :
        \A i \in DOMAIN ops[p] :
            (IsWrite(ops[p][i]) /\ StartsWith(ops[p][i].key, CD_BIN_PFX(p))) =>
                /\ ops[p][i].op = "copy"
                /\ StartsWith(ops[p][i].src, CACHE_BIN_PFX(p))
                /\ parse_s3_key(ops[p][i].src) = parse_s3_key(ops[p][i].key)

\* C11: every put or copy of a run under current/ writes a key of a tool of
\* the run's resolved versions (head_versions), whatever cache/ holds.
C11_OnlyResolvedToolsPromoted ==
    \A p \in Platforms :
        \A i \in DOMAIN ops[p] :
            (IsWrite(ops[p][i]) /\ StartsWith(ops[p][i].key, CD_BIN_PFX(p))) =>
                ToolOf(ops[p][i].key) \in DOMAIN head_versions[p]

\* a run has written to current/ while cache/ held, from the start of the
\* run on, a key of a tool that the run did not resolve
C11_Witness ==
    /\ \E i \in DOMAIN ops[Linux] :
           IsWrite(ops[Linux][i]) /\ StartsWith(ops[Linux][i].key, CD_BIN_PFX(Linux))
    /\ \E k \in CacheKeys(start_store[Linux], Linux) \cap store :
           ToolOf(k) \notin DOMAIN head_versions[Linux]

\* C12: when a run that a store error ended during promotion is run again
\* with the same heads, and the second run ends with no failed build and no
\* store error, the keys under current/ are exactly the head keys of the
\* declared tools.
C12_RerunCompletesPromotion ==
    \A p \in Platforms :
        (rerun[p] /\ Done(p) /\ ~raised[p] /\ store_error[p] = "none") =>
            CurrentKeys(store, p) = DesiredCurrent(p)

\* the run of p has issued no delete request
NoDeleteYet(p) == \A i \in DOMAIN ops[p] : ops[p][i].op /= "delete"

\* a store call of sync_tools raised in the run of p
SyncInterrupted(p) ==
    Done(p) /\ store_error[p] \in {"list_current", "put_cache", "copy", "put_current", "delete"}

\* C13: as long as a run has not issued its delete request, and so also when
\* its sync_tools was interrupted before it, every key the run found under
\* cache/ and under current/ is still there.
C13_InterruptedSyncKeepsKeys ==
    \A p \in Platforms :
        NoDeleteYet(p) =>
            /\ CacheKeys(start_store[p], p) \subseteq store
            /\ CurrentKeys(start_store[p], p) \subseteq store

\* a store error has ended a sync_tools that had written to the bucket and
\* had marked keys for deletion, next to populated cache/ and current/
C13_Witness ==
    /\ SyncInterrupted(Linux)
    /\ ops[Linux] /= <<>>
    /\ to_delete[Linux] /= {}
    /\ CacheKeys(start_store[Linux], Linux) /= {}
    /\ CurrentKeys(start_store[Linux], Linux) /= {}
    /\ store /= start_store[Linux]

\* a put to cache/
IsCacheUpload(o, p) == o.op = "put" /\ StartsWith(o.key, CACHE_BIN_PFX(p))

\* a store write that touches current/
TouchesCurrent(o, p) == CurrentKeys(Touched(o), p) /= {}

\* C14: in the writes of a run no upload to cache/ follows a write that
\* touches current/, and a run in which an upload to cache/ raised has made
\* no copy, upload or delete under current/.
C14_CacheBeforeCurrent ==
    \A p \in Platforms :
        /\ \A i, j \in DOMAIN ops[p] :
               (i < j /\ TouchesCurrent(ops[p][i], p)) => ~IsCacheUpload(ops[p][j], p)
        /\ store_error[p] = "put_cache" =>
               \A i \in DOMAIN ops[p] : ~TouchesCurrent(ops[p][i], p)

\* the second upload to cache/ of a run that was to promote raised, the
\* first having succeeded, next to a populated current/
C14_Witness ==
    /\ Done(Linux)
    /\ store_error[Linux] = "put_cache"
    /\ update_current[Linux]
    /\ \E i \in DOMAIN ops[Linux] : IsCacheUpload(ops[Linux][i], Linux)
    /\ CurrentKeys(store, Linux) /= {}

\* the keys of a platform: those under <platform>/
OwnKeys(S, p) == Under(S, p \o <<"/">>)

\* the step is one of the run of p
StepOf(p) ==
    <<pc[p], runs[p], ops[p], queue[p], nbuilds[p]>>' /=
        <<pc[p], runs[p], ops[p], queue[p], nbuilds[p]>>

\* C15: with the runs of two platforms interleaved, every write and delete
\* of a run names keys under its own <platform>/ prefix, a step of a run
\* leaves the keys of the other platform as they are, and what a run lists
\* of cache/ and of current/ is what it would list if the bucket held its
\* own platform's keys only: each platform's keys evolve as if it ran alone.
C15_PlatformsAreIndependent ==
    [][\A p \in Platforms :
        /\ \A i \in DOMAIN ops'[p] :
               /\ Touched(ops'[p][i]) \subseteq OwnKeys(Touched(ops'[p][i]), p)
               /\ ops'[p][i].op = "copy" => StartsWith(ops'[p][i].src, p \o <<"/">>)
        /\ StepOf(p) =>
               \A q \in Platforms \ {p} : OwnKeys(store', q) = OwnKeys(store, q)
        /\ (runs'[p] = runs[p] + 1 /\ store_error'[p] /= "list_cache") =>
               cached_versions'[p] = get_cached_versions(OwnKeys(store, p), p)
        /\ (pc[p] = "sync" /\ pc'[p] /= "sync" /\ store_error'[p] = "none") =>
               current_versions'[p] = get_current_versions(OwnKeys(store, p), p)
      ]_vars

\* both platforms are in sync_tools at once, each replacing keys of an
\* earlier run, at different heads of the same tool
C15_Witness ==
    /\ pc[Linux] = "copy"
    /\ pc[Darwin] = "upload_current"
    /\ to_delete[Linux] /= {}
    /\ to_delete[Darwin] /= {}
    /\ head_versions[Linux] /= head_versions[Darwin]
    /\ ops[Linux] /= <<>>
    /\ ops[Darwin] /= <<>>

\* C16: the needs-build set of a run holds a declared tool exactly when the
\* key of the tool at its head revision was not under cache/ when the run
\* planned.
C16_NeedsBuildIffHeadKeyAbsent ==
    \A p \in Platforms :
        Planned(p) =>
            \A t \in Range(config[p]) :
                t \in Range(ToBuild(p)) <=>
                    get_s3_key(CACHE_BIN_PFX(p), t, head_versions[p][t]) \notin start_store[p]

\* the run of p built tools and its sync_tools ran to its end
SyncCompleted(p) == Done(p) /\ nbuilds[p] > 0 /\ store_error[p] = "none"

\* C17: after a run whose sync_tools completed without a store error, the
\* head key of every tool the run rebuilt is under cache/ and the key of the
\* version the run had listed as cached for it is not, whether the run
\* promoted or not.
C17_RebuiltToolReplacesCacheKey ==
    \A p \in Platforms :
        SyncCompleted(p) =>
            \A t \in bin_dir[p] :
                /\ get_s3_key(CACHE_BIN_PFX(p), t, head_versions[p][t]) \in store
                /\ Get(cached_versions[p], t) /= None =>
                       get_s3_key(CACHE_BIN_PFX(p), t, cached_versions[p][t]) \notin store

\* no two keys of S name the same tool
OneKeyPerTool(S) == \A k1, k2 \in S : ToolOf(k1) = ToolOf(k2) => k1 = k2

\* C18: when no store call has raised so far and no run is under way,
\* cache/ holds at most one key per tool and so does current/.
C18_OneKeyPerTool ==
    \A p \in Platforms :
        (nerrors = 0 /\ pc[p] \in {"idle", "done"} /\ store_error[p] = "none") =>
            /\ OneKeyPerTool(CacheKeys(store, p))
            /\ OneKeyPerTool(CurrentKeys(store, p))

\* the <tool>-<revision> names of a set of keys
Names(S) == {parse_s3_key(k) : k \in S}

\* C19: a key appears under current/ only in a step in which a key of the
\* same <tool>-<revision> name is under cache/ of the same platform; so,
\* from an empty store, every key under current/ has the name of a key that
\* is or was under cache/.
C19_CurrentWasCached ==
    [][\A p \in Platforms :
        Names(CurrentKeys(store', p) \ CurrentKeys(store, p))
            \subseteq Names(CacheKeys(store, p))]_vars

\* current/ holds a key whose name is no longer under cache/, next to one
\* whose name is
C19_Witness ==
    /\ Names(CurrentKeys(store, Linux)) \ Names(CacheKeys(store, Linux)) /= {}
    /\ Names(CurrentKeys(store, Linux)) \cap Names(CacheKeys(store, Linux)) /= {}

\* C20: a run asks ls-remote about every source of a declared tool, once
\* each, and two declared tools of the same source have the same head
\* revision.
C20_SourcesResolvedOnce ==
    \A p \in Platforms :
        Planned(p) =>
            /\ \A i, j \in DOMAIN queried[p] : queried[p][i] = queried[p][j] => i = j
            /\ Range(queried[p]) = {SourceOf(t) : t \in Range(config[p])}
            /\ \A t, u \in Range(config[p]) :
                   SourceOf(t) = SourceOf(u) => head_versions[p][t] = head_versions[p][u]

\* a run resolved three tools of two sources to two different revisions and
\* built the two tools that share a source
C20_Witness ==
    /\ Planned(Linux)
    /\ config[Linux] = <<ToolA, ToolB, ToolG>>
    /\ Len(queried[Linux]) = 2
    /\ head_versions[Linux][ToolA] /= head_versions[Linux][ToolB]
    /\ nbuilds[Linux] > 0
    /\ {ToolB, ToolG} \subseteq bin_dir[Linux]
    /\ Done(Linux)

\* C21: for every prefix, every tool name without "/" and every version
\* without "-" or "/", parsing the key made of them gives back the tool
\* name and the version (so two different pairs never parse to the same).
C21_KeyRoundTrip ==
    ( /\ key_call.at = "parsed"
      /\ "/" \notin Range(key_call.tool)
      /\ "-" \notin Range(key_call.version)
      /\ "/" \notin Range(key_call.version) )
    => key_call.parsed = <<key_call.tool, key_call.version>>

\* the key of a tool with a hyphen in its name, under a prefix that does not
\* end with "/", was made and parsed
C21_Witness ==
    /\ key_call.at = "parsed"
    /\ key_call.prefix = <<"linux", "/", "cache">>
    /\ key_call.tool = ToolG
    /\ key_call.version = <<"1">>
    /\ key_call.key = <<"linux", "/", "cache", "/", "b", "-", "g", "-", "1">>
====
